---- MODULE Spec2Model ----
(***************************************************************************)
(* Model of dify_plugin/entities/model/message.py: the prompt-message data *)
(* model (roles, content variants, message variants, tool calls) and its   *)
(* construction-time normalisation.                                        *)
(*                                                                         *)
(* Python values whose type is only known at run time (keyword arguments,  *)
(* dict values, Optional fields) are tagged records: PyNone, PyStr, PyInt, *)
(* PyBool, PyList, PyEnum.  Fields with a static str type are TLA+ strings.*)
(* An enum member is kept by its member NAME ("TEXT"); its .value is the   *)
(* lower-case wire string ("text").  A member never equals its value.      *)
(* A call either returns or raises: Return(v) / Raise(e).                  *)
(***************************************************************************)
EXTENDS Integers, Sequences, FiniteSets, TLC

VARIABLES pc, op, arg, ret, empty, wire, back

vars == <<pc, op, arg, ret, empty, wire, back>>

(* ------------------------------ bounds -------------------------------- *)
MaxLen == 3
MaxToolCalls == 2
MaxId == 42

(* --------------------------- Python values ---------------------------- *)
PyNone == [t |-> "none"]
PyStr(s) == [t |-> "str", s |-> s]
PyInt(i) == [t |-> "int", i |-> i]
PyBool(b) == [t |-> "bool", b |-> b]
PyList(l) == [t |-> "list", l |-> l]
PyEnum(e, m) == [t |-> "enum", e |-> e, m |-> m]
Omitted == [t |-> "omitted"]
Unset == [t |-> "unset"]

Return(v) == [ok |-> TRUE, val |-> v]
Raise(e) == [ok |-> FALSE, exc |-> e]

IsStr(v) == v.t = "str"

\* bool(v) of a Python value
Truthy(v) ==
  CASE v.t = "none" -> FALSE
    [] v.t = "str" -> v.s # ""
    [] v.t = "list" -> Len(v.l) > 0
    [] v.t = "bool" -> v.b
    [] v.t = "int" -> v.i # 0
    [] OTHER -> TRUE

\* dict.get(key) == value
GetEquals(d, key, value) == key \in DOMAIN d /\ d[key] = value

Digit == <<"0", "1", "2", "3", "4", "5", "6", "7", "8", "9">>

RECURSIVE NatToStr(_)
NatToStr(n) ==
  IF n < 10 THEN Digit[n + 1] ELSE NatToStr(n \div 10) \o Digit[(n % 10) + 1]

\* str(value) for the scalar values of the model
str(v) ==
  CASE v.t = "str" -> v.s
    [] v.t = "int" -> IF v.i < 0 THEN "-" \o NatToStr(0 - v.i) ELSE NatToStr(v.i)
    [] v.t = "bool" -> IF v.b THEN "True" ELSE "False"
    [] v.t = "none" -> "None"

(* ------------------------- PromptMessageRole -------------------------- *)
\* members in definition order
PromptMessageRole == <<"SYSTEM", "USER", "ASSISTANT", "TOOL">>

RoleValue(m) ==
  CASE m = "SYSTEM" -> "system"
    [] m = "USER" -> "user"
    [] m = "ASSISTANT" -> "assistant"
    [] m = "TOOL" -> "tool"

RECURSIVE value_of_from(_, _)
value_of_from(i, value) ==
  IF i > Len(PromptMessageRole)
  THEN Raise("ValueError")
  ELSE IF RoleValue(PromptMessageRole[i]) = value
       THEN Return(PromptMessageRole[i])
       ELSE value_of_from(i + 1, value)

value_of_name_or_value(value) ==
  IF \E i \in 1..Len(PromptMessageRole) :
       value \in {RoleValue(PromptMessageRole[i]), PromptMessageRole[i]}
  THEN Return(CHOOSE m \in {PromptMessageRole[i] : i \in 1..Len(PromptMessageRole)} :
                value \in {RoleValue(m), m})
  ELSE Raise("ValueError")

value_of(value) == value_of_from(1, value)

(* ---------------------- PromptMessageContentType ---------------------- *)
PromptMessageContentType == <<"TEXT", "IMAGE", "AUDIO", "VIDEO", "DOCUMENT">>

ContentTypeValue(m) ==
  CASE m = "TEXT" -> "text"
    [] m = "IMAGE" -> "image"
    [] m = "AUDIO" -> "audio"
    [] m = "VIDEO" -> "video"
    [] m = "DOCUMENT" -> "document"

DetailValue(m) ==
  CASE m = "LOW" -> "low"
    [] m = "HIGH" -> "high"

(* ------------------- MultiModalPromptMessageContent ------------------- *)
data_base64_first(self) ==
  IF self.base64_data # ""
  THEN "data:" \o self.mime_type \o ";base64," \o self.base64_data
  ELSE self.url

\* the data property: self.url or f"data:{mime_type};base64,{base64_data}"
data(self) ==
  IF Truthy(PyStr(self.url))
  THEN self.url
  ELSE "data:" \o self.mime_type \o ";base64," \o self.base64_data

(* ------------------- AssistantPromptMessage.ToolCall ------------------ *)
transform_id_unchanged(value) == value

\* field validator of ToolCall.id, mode="before"
transform_id_to_str(value) ==
  IF ~IsStr(value) THEN PyStr(str(value)) ELSE value

(* -------------------------- content variants -------------------------- *)
\* isinstance(content, PromptMessageContent): typed values carry their class
IsPromptMessageContent(x) == "cls" \in DOMAIN x

HasStr(kw, k) == k \in DOMAIN kw /\ IsStr(kw[k])

\* a str field with a default: absent -> default, present -> must be a str
StrOrDefault(kw, k, default) == IF k \in DOMAIN kw THEN kw[k] ELSE PyStr(default)

\* Literal[member] field with the member as default: the member or its value
LiteralOk(kw, member) ==
  "type" \in DOMAIN kw =>
    kw.type \in {PyEnum("PromptMessageContentType", member),
                 PyStr(ContentTypeValue(member))}

TextPromptMessageContent_data_optional(kw) ==
  IF LiteralOk(kw, "TEXT") /\ IsStr(StrOrDefault(kw, "data", ""))
  THEN Return([cls |-> "TextPromptMessageContent", type |-> "TEXT",
               data |-> StrOrDefault(kw, "data", "").s])
  ELSE Raise("ValidationError")

\* TextPromptMessageContent(**kw): data is required
TextPromptMessageContent(kw) ==
  IF LiteralOk(kw, "TEXT") /\ HasStr(kw, "data")
  THEN Return([cls |-> "TextPromptMessageContent", type |-> "TEXT",
               data |-> kw.data.s])
  ELSE Raise("ValidationError")

\* the four fields shared by the multi-modal variants: format and mime_type
\* are required (default=...), base64_data and url default to ""
MultiModalValid(kw) ==
  /\ HasStr(kw, "format")
  /\ HasStr(kw, "mime_type")
  /\ IsStr(StrOrDefault(kw, "base64_data", ""))
  /\ IsStr(StrOrDefault(kw, "url", ""))

MultiModalPromptMessageContent(kw) ==
  [format |-> kw.format.s,
   base64_data |-> StrOrDefault(kw, "base64_data", "").s,
   url |-> StrOrDefault(kw, "url", "").s,
   mime_type |-> kw.mime_type.s]

VideoPromptMessageContent(kw) ==
  IF LiteralOk(kw, "VIDEO") /\ MultiModalValid(kw)
  THEN Return([cls |-> "VideoPromptMessageContent", type |-> "VIDEO"]
              @@ MultiModalPromptMessageContent(kw))
  ELSE Raise("ValidationError")

AudioPromptMessageContent(kw) ==
  IF LiteralOk(kw, "AUDIO") /\ MultiModalValid(kw)
  THEN Return([cls |-> "AudioPromptMessageContent", type |-> "AUDIO"]
              @@ MultiModalPromptMessageContent(kw))
  ELSE Raise("ValidationError")

\* detail: DETAIL = DETAIL.LOW; a member or a member's value
DetailValid(kw) ==
  "detail" \in DOMAIN kw =>
    kw.detail \in {PyEnum("DETAIL", "LOW"), PyEnum("DETAIL", "HIGH"),
                   PyStr("low"), PyStr("high")}

DetailOf(kw) ==
  IF "detail" \notin DOMAIN kw THEN "LOW"
  ELSE IF kw.detail \in {PyEnum("DETAIL", "LOW"), PyStr("low")} THEN "LOW"
  ELSE "HIGH"

ImagePromptMessageContent(kw) ==
  IF LiteralOk(kw, "IMAGE") /\ MultiModalValid(kw) /\ DetailValid(kw)
  THEN Return([cls |-> "ImagePromptMessageContent", type |-> "IMAGE",
               detail |-> DetailOf(kw)]
              @@ MultiModalPromptMessageContent(kw))
  ELSE Raise("ValidationError")

DocumentPromptMessageContent(kw) ==
  IF LiteralOk(kw, "DOCUMENT") /\ MultiModalValid(kw)
  THEN Return([cls |-> "DocumentPromptMessageContent", type |-> "DOCUMENT"]
              @@ MultiModalPromptMessageContent(kw))
  ELSE Raise("ValidationError")

(* ------------------ PromptMessage.transform_content ------------------- *)
\* Outcome of one loop iteration over a dict: Return(<<c>>) appends c,
\* Return(<<>>) appends nothing, Raise propagates.
Appended(r) == IF r.ok THEN Return(<<r.val>>) ELSE r

content_from_dict_swapped(content) ==
  IF GetEquals(content, "type", PyStr(ContentTypeValue("TEXT")))
  THEN Appended(TextPromptMessageContent(content))
  ELSE IF GetEquals(content, "type", PyStr(ContentTypeValue("IMAGE")))
  THEN Appended(ImagePromptMessageContent(content))
  ELSE IF GetEquals(content, "type", PyStr(ContentTypeValue("DOCUMENT")))
  THEN Appended(AudioPromptMessageContent([content EXCEPT !.type = PyStr("audio")]))
  ELSE IF GetEquals(content, "type", PyStr(ContentTypeValue("AUDIO")))
  THEN Appended(DocumentPromptMessageContent([content EXCEPT !.type = PyStr("document")]))
  ELSE IF GetEquals(content, "type", PyStr(ContentTypeValue("VIDEO")))
  THEN Appended(VideoPromptMessageContent(content))
  ELSE Return(<<>>)

\* the if/elif chain on content.get("type")
content_from_dict(content) ==
  IF GetEquals(content, "type", PyStr(ContentTypeValue("TEXT")))
  THEN Appended(TextPromptMessageContent(content))
  ELSE IF GetEquals(content, "type", PyStr(ContentTypeValue("IMAGE")))
  THEN Appended(ImagePromptMessageContent(content))
  ELSE IF GetEquals(content, "type", PyStr(ContentTypeValue("DOCUMENT")))
  THEN Appended(DocumentPromptMessageContent(content))
  ELSE IF GetEquals(content, "type", PyStr(ContentTypeValue("AUDIO")))
  THEN Appended(AudioPromptMessageContent(content))
  ELSE IF GetEquals(content, "type", PyStr(ContentTypeValue("VIDEO")))
  THEN Appended(VideoPromptMessageContent(content))
  ELSE Return(<<>>)

RECURSIVE transform_content_loop(_, _, _)
transform_content_loop(items, i, result) ==
  IF i > Len(items)
  THEN Return(PyList(result))
  ELSE LET content == items[i] IN
       IF IsPromptMessageContent(content)
       THEN transform_content_loop(items, i + 1, Append(result, content))
       ELSE LET r == content_from_dict(content) IN
            IF r.ok
            THEN transform_content_loop(items, i + 1, result \o r.val)
            ELSE r

\* field validator of PromptMessage.content, mode="before"
transform_content(value) ==
  IF IsStr(value)
  THEN Return(value)
  ELSE transform_content_loop(IF Truthy(value) THEN value.l ELSE <<>>, 1, <<>>)

(* ----------------------------- messages ------------------------------- *)
\* Keyword arguments of a message constructor: one record with every key,
\* a key the caller does not pass holding Omitted.

\* role: PromptMessageRole = <default>; a member, or a member's value
RoleField(kw, default) ==
  IF kw.role = Omitted
  THEN Return(default)
  ELSE IF kw.role.t = "enum" /\ kw.role.e = "PromptMessageRole"
  THEN Return(kw.role.m)
  ELSE IF kw.role.t = "str"
          /\ \E i \in 1..Len(PromptMessageRole) : RoleValue(PromptMessageRole[i]) = kw.role.s
  THEN Return(CHOOSE m \in {PromptMessageRole[i] : i \in 1..Len(PromptMessageRole)} :
                RoleValue(m) = kw.role.s)
  ELSE Raise("ValidationError")

\* content: Optional[str | list[...]] = None; the default is not validated,
\* a passed value goes through transform_content first
ContentField(kw) ==
  IF kw.content = Omitted THEN Return(PyNone) ELSE transform_content(kw.content)

\* name: Optional[str] = None
NameField(kw) ==
  IF kw.name = Omitted \/ kw.name = PyNone
  THEN Return(PyNone)
  ELSE IF IsStr(kw.name) THEN Return(kw.name) ELSE Raise("ValidationError")

DefaultRole_all_user(cls) == "USER"

\* the role default each message class declares
DefaultRole(cls) ==
  CASE cls = "UserPromptMessage" -> "USER"
    [] cls = "AssistantPromptMessage" -> "ASSISTANT"
    [] cls = "SystemPromptMessage" -> "SYSTEM"
    [] cls = "ToolPromptMessage" -> "TOOL"

\* the three fields of the base class
PromptMessage(cls, kw) ==
  LET role == RoleField(kw, DefaultRole(cls))
      content == ContentField(kw)
      name == NameField(kw)
  IN IF role.ok /\ content.ok /\ name.ok
     THEN Return([cls |-> cls, role |-> role.val, content |-> content.val,
                  name |-> name.val])
     ELSE Raise("ValidationError")

UserPromptMessage(kw) == PromptMessage("UserPromptMessage", kw)

SystemPromptMessage(kw) == PromptMessage("SystemPromptMessage", kw)

ToolCallFunction(kw) ==
  IF HasStr(kw, "name") /\ HasStr(kw, "arguments")
  THEN Return([cls |-> "ToolCallFunction", name |-> kw.name.s,
               arguments |-> kw.arguments.s])
  ELSE Raise("ValidationError")

\* ToolCall(**kw): id passes through transform_id_to_str, then must be a str
ToolCall(kw) ==
  LET id == IF "id" \in DOMAIN kw THEN transform_id_to_str(kw.id) ELSE Omitted
      function == IF "function" \in DOMAIN kw
                  THEN ToolCallFunction(kw.function)
                  ELSE Raise("ValidationError")
  IN IF IsStr(id) /\ HasStr(kw, "type") /\ function.ok
     THEN Return([cls |-> "ToolCall", id |-> id.s, type |-> kw.type.s,
                  function |-> function.val])
     ELSE Raise("ValidationError")

RECURSIVE ToolCallsFrom(_, _, _)
ToolCallsFrom(items, i, result) ==
  IF i > Len(items)
  THEN Return(result)
  ELSE LET r == ToolCall(items[i]) IN
       IF r.ok THEN ToolCallsFrom(items, i + 1, Append(result, r.val)) ELSE r

\* tool_calls: list[ToolCall] = []
ToolCallsField(kw) ==
  IF kw.tool_calls = Omitted
  THEN Return(<<>>)
  ELSE IF kw.tool_calls.t = "list"
  THEN ToolCallsFrom(kw.tool_calls.l, 1, <<>>)
  ELSE Raise("ValidationError")

AssistantPromptMessage(kw) ==
  LET base == PromptMessage("AssistantPromptMessage", kw)
      tool_calls == ToolCallsField(kw)
  IN IF base.ok /\ tool_calls.ok
     THEN Return(base.val @@ [tool_calls |-> tool_calls.val])
     ELSE Raise("ValidationError")

\* tool_call_id: str, required
ToolPromptMessage(kw) ==
  LET base == PromptMessage("ToolPromptMessage", kw)
  IN IF base.ok /\ IsStr(kw.tool_call_id)
     THEN Return(base.val @@ [tool_call_id |-> kw.tool_call_id.s])
     ELSE Raise("ValidationError")

(* ------------------------------ is_empty ------------------------------ *)
PromptMessage_is_empty_none_only(self) == self.content = PyNone

PromptMessage_is_empty(self) == ~Truthy(self.content)

AssistantPromptMessage_is_empty(self) ==
  ~(~PromptMessage_is_empty(self) /\ ~Truthy(PyList(self.tool_calls)))

ToolPromptMessage_is_empty(self) ==
  ~(~PromptMessage_is_empty(self) /\ ~Truthy(PyStr(self.tool_call_id)))

\* method resolution by the class of self
is_empty(self) ==
  CASE self.cls = "AssistantPromptMessage" -> AssistantPromptMessage_is_empty(self)
    [] self.cls = "ToolPromptMessage" -> ToolPromptMessage_is_empty(self)
    [] OTHER -> PromptMessage_is_empty(self)

(* --------------------------- serialisation ---------------------------- *)
\* The wire shape of a value (a JSON-mode dump): every enum member appears
\* as its value string, nested objects as dicts of their declared fields.
MultiModalDump(c) ==
  [type |-> PyStr(ContentTypeValue(c.type)), format |-> PyStr(c.format),
   base64_data |-> PyStr(c.base64_data), url |-> PyStr(c.url),
   mime_type |-> PyStr(c.mime_type)]

content_dump(c) ==
  IF c.cls = "TextPromptMessageContent"
  THEN [type |-> PyStr(ContentTypeValue(c.type)), data |-> PyStr(c.data)]
  ELSE IF c.cls = "ImagePromptMessageContent"
  THEN MultiModalDump(c) @@ [detail |-> PyStr(DetailValue(c.detail))]
  ELSE MultiModalDump(c)

\* the dump with enum members left as members (no conversion to the value)
content_dump_members(c) ==
  IF c.cls = "TextPromptMessageContent"
  THEN [type |-> PyEnum("PromptMessageContentType", c.type), data |-> PyStr(c.data)]
  ELSE IF c.cls = "ImagePromptMessageContent"
  THEN [MultiModalDump(c) EXCEPT !.type = PyEnum("PromptMessageContentType", c.type)]
       @@ [detail |-> PyEnum("DETAIL", c.detail)]
  ELSE [MultiModalDump(c) EXCEPT !.type = PyEnum("PromptMessageContentType", c.type)]

tool_call_dump(tc) ==
  [id |-> PyStr(tc.id), type |-> PyStr(tc.type),
   function |-> [name |-> PyStr(tc.function.name),
                 arguments |-> PyStr(tc.function.arguments)]]

model_dump_members(self) ==
  [role |-> PyEnum("PromptMessageRole", self.role),
   content |-> IF self.content.t = "list"
               THEN PyList([i \in 1..Len(self.content.l) |->
                              content_dump_members(self.content.l[i])])
               ELSE self.content,
   name |-> self.name,
   tool_calls |-> IF self.cls = "AssistantPromptMessage"
                  THEN PyList([i \in 1..Len(self.tool_calls) |->
                                 tool_call_dump(self.tool_calls[i])])
                  ELSE Omitted,
   tool_call_id |-> IF self.cls = "ToolPromptMessage"
                    THEN PyStr(self.tool_call_id)
                    ELSE Omitted]

\* the dict a message serialises to, in the shape of constructor kwargs
model_dump(self) ==
  [role |-> PyStr(RoleValue(self.role)),
   content |-> IF self.content.t = "list"
               THEN PyList([i \in 1..Len(self.content.l) |->
                              content_dump(self.content.l[i])])
               ELSE self.content,
   name |-> self.name,
   tool_calls |-> IF self.cls = "AssistantPromptMessage"
                  THEN PyList([i \in 1..Len(self.tool_calls) |->
                                 tool_call_dump(self.tool_calls[i])])
                  ELSE Omitted,
   tool_call_id |-> IF self.cls = "ToolPromptMessage"
                    THEN PyStr(self.tool_call_id)
                    ELSE Omitted]

\* cls(**kwargs)
Construct(cls, kw) ==
  CASE cls = "UserPromptMessage" -> UserPromptMessage(kw)
    [] cls = "SystemPromptMessage" -> SystemPromptMessage(kw)
    [] cls = "AssistantPromptMessage" -> AssistantPromptMessage(kw)
    [] cls = "ToolPromptMessage" -> ToolPromptMessage(kw)

(* ------------------------------- inputs ------------------------------- *)
SeqsUpTo(S, n) == UNION {[1..k -> S] : k \in 0..n}

RoleStrings ==
  {"system", "user", "assistant", "tool",
   "System", "SYSTEM", "USER", "tools", "bogus", ""}

IdValues ==
  {PyStr(s) : s \in {"abc", "42", ""}}
    \cup {PyInt(i) : i \in (0 - MaxId)..MaxId}
    \cup {PyBool(b) : b \in BOOLEAN}
    \cup {PyNone}

Urls == {"", "http://x/y.png"}
Base64s == {"", "AAAA"}
MimeTypes == {"image/png", "audio/mpeg"}

MultiModalObjects ==
  {[cls |-> "VideoPromptMessageContent", type |-> "VIDEO", format |-> "f",
    base64_data |-> b, url |-> u, mime_type |-> m]
     : b \in Base64s, u \in Urls, m \in MimeTypes}
  \cup
  {[cls |-> "AudioPromptMessageContent", type |-> "AUDIO", format |-> "f",
    base64_data |-> b, url |-> u, mime_type |-> m]
     : b \in Base64s, u \in Urls, m \in MimeTypes}
  \cup
  {[cls |-> "DocumentPromptMessageContent", type |-> "DOCUMENT", format |-> "f",
    base64_data |-> b, url |-> u, mime_type |-> m]
     : b \in Base64s, u \in Urls, m \in MimeTypes}
  \cup
  {[cls |-> "ImagePromptMessageContent", type |-> "IMAGE", format |-> "f",
    base64_data |-> b, url |-> u, mime_type |-> m, detail |-> d]
     : b \in Base64s, u \in Urls, m \in MimeTypes, d \in {"LOW", "HIGH"}}

TextDict == [type |-> PyStr("text"), data |-> PyStr("hi")]
TextDictNoData == [type |-> PyStr("text")]
ImageDict ==
  [type |-> PyStr("image"), format |-> PyStr("png"), mime_type |-> PyStr("image/png"),
   base64_data |-> PyStr("AAAA"), detail |-> PyStr("high")]
ImageDictNoMimeType ==
  [type |-> PyStr("image"), format |-> PyStr("png"), url |-> PyStr("http://x/y.png")]
DocumentDict ==
  [type |-> PyStr("document"), format |-> PyStr("pdf"),
   mime_type |-> PyStr("application/pdf"), url |-> PyStr("http://x/d.pdf")]
AudioDict ==
  [type |-> PyStr("audio"), format |-> PyStr("mp3"), mime_type |-> PyStr("audio/mpeg"),
   base64_data |-> PyStr("QUJD")]
VideoDictNoFormat ==
  [type |-> PyStr("video"), mime_type |-> PyStr("video/mp4"), url |-> PyStr("http://x/v.mp4")]
VideoDict ==
  [type |-> PyStr("video"), format |-> PyStr("mp4"), mime_type |-> PyStr("video/mp4"),
   url |-> PyStr("http://x/v.mp4")]
BogusDict == [type |-> PyStr("bogus"), data |-> PyStr("hi")]
NoTypeDict == [data |-> PyStr("hi")]
MemberTypeDict == [type |-> PyEnum("PromptMessageContentType", "TEXT"), data |-> PyStr("hi")]
TextObject == [cls |-> "TextPromptMessageContent", type |-> "TEXT", data |-> "typed"]
ImageObject ==
  [cls |-> "ImagePromptMessageContent", type |-> "IMAGE", format |-> "png",
   base64_data |-> "", url |-> "http://x/y.png", mime_type |-> "image/png",
   detail |-> "LOW"]

ContentItems ==
  {TextDict, TextDictNoData, ImageDict, ImageDictNoMimeType, DocumentDict, AudioDict,
   VideoDictNoFormat, VideoDict, BogusDict, NoTypeDict, MemberTypeDict,
   TextObject, ImageObject}

ContentValues ==
  {Omitted, PyNone, PyStr(""), PyStr("hi")}
    \cup {PyList(l) : l \in SeqsUpTo(ContentItems, MaxLen)}

RoleKwargs ==
  {Omitted, PyEnum("PromptMessageRole", "SYSTEM"), PyEnum("PromptMessageRole", "USER"),
   PyStr("assistant"), PyStr("bogus")}

NameKwargs == {Omitted, PyStr("bob")}

ToolCallDicts ==
  {[id |-> PyInt(MaxId), type |-> PyStr("function"),
    function |-> [name |-> PyStr("f"), arguments |-> PyStr("{}")]],
   [id |-> PyStr("call_1"), type |-> PyStr("function"),
    function |-> [name |-> PyStr("g"), arguments |-> PyStr("{}")]]}

ToolCallsKwargs ==
  {Omitted} \cup {PyList(l) : l \in SeqsUpTo(ToolCallDicts, MaxToolCalls)}

ToolCallIdKwargs == {Omitted, PyStr(""), PyStr("call_1")}

MessageClasses ==
  {"UserPromptMessage", "SystemPromptMessage", "AssistantPromptMessage",
   "ToolPromptMessage"}

SmallContentValues ==
  {Omitted, PyNone, PyStr("hi"), PyList(<<BogusDict>>),
   PyList(<<TextDict, ImageDict>>), PyList(<<ImageObject, TextObject>>)}

\* calls that vary the content, the other fields at their defaults
ContentKwargs(cls) ==
  [role : {Omitted}, content : ContentValues, name : {Omitted},
   tool_calls : IF cls = "AssistantPromptMessage"
                THEN {Omitted} \cup {PyList(<<tc>>) : tc \in ToolCallDicts}
                ELSE {Omitted},
   tool_call_id : IF cls = "ToolPromptMessage"
                  THEN {PyStr(""), PyStr("call_1")}
                  ELSE {Omitted}]

\* calls that vary the other fields, over a few contents
FieldKwargs(cls) ==
  [role : RoleKwargs, content : SmallContentValues, name : NameKwargs,
   tool_calls : IF cls = "AssistantPromptMessage" THEN ToolCallsKwargs ELSE {Omitted},
   tool_call_id : IF cls = "ToolPromptMessage" THEN ToolCallIdKwargs ELSE {Omitted}]

Kwargs(cls) == ContentKwargs(cls) \cup FieldKwargs(cls)

ArgsOf(o) ==
  CASE o = "value_of" -> RoleStrings
    [] o = "data" -> MultiModalObjects
    [] o = "transform_id_to_str" -> IdValues
    [] OTHER -> Kwargs(o)

Ops == {"value_of", "data", "transform_id_to_str"} \cup MessageClasses

(* --------------------------- state machine ---------------------------- *)
\* One call per behaviour: the initial state holds the call and its
\* argument, the actions run it and then the methods of the value built.
Init ==
  /\ pc = "call"
  /\ op \in Ops
  /\ arg \in ArgsOf(op)
  /\ ret = Unset
  /\ empty = Unset
  /\ wire = Unset
  /\ back = Unset

CallValueOf ==
  /\ pc = "call" /\ op = "value_of"
  /\ ret' = value_of(arg)
  /\ pc' = "done"
  /\ UNCHANGED <<op, arg, empty, wire, back>>

CallData ==
  /\ pc = "call" /\ op = "data"
  /\ ret' = Return(PyStr(data(arg)))
  /\ pc' = "done"
  /\ UNCHANGED <<op, arg, empty, wire, back>>

CallTransformIdToStr ==
  /\ pc = "call" /\ op = "transform_id_to_str"
  /\ ret' = Return(transform_id_to_str(arg))
  /\ pc' = "done"
  /\ UNCHANGED <<op, arg, empty, wire, back>>

ConstructMessage ==
  /\ pc = "call" /\ op \in MessageClasses
  /\ ret' = Construct(op, arg)
  /\ pc' = IF ret'.ok THEN "built" ELSE "raised"
  /\ UNCHANGED <<op, arg, empty, wire, back>>

CallIsEmpty ==
  /\ pc = "built"
  /\ empty' = PyBool(is_empty(ret.val))
  /\ pc' = "checked"
  /\ UNCHANGED <<op, arg, ret, wire, back>>

CallModelDump ==
  /\ pc = "checked"
  /\ wire' = model_dump(ret.val)
  /\ pc' = "dumped"
  /\ UNCHANGED <<op, arg, ret, empty, back>>

CallModelValidate ==
  /\ pc = "dumped"
  /\ back' = Construct(op, wire)
  /\ pc' = "loaded"
  /\ UNCHANGED <<op, arg, ret, empty, wire>>

Next ==
  \/ CallValueOf
  \/ CallData
  \/ CallTransformIdToStr
  \/ ConstructMessage
  \/ CallIsEmpty
  \/ CallModelDump
  \/ CallModelValidate

Spec == Init /\ [][Next]_vars

(* ------------------------ vocabulary of the claims -------------------- *)
KnownKinds == {"text", "image", "document", "audio", "video"}

IsTyped(x) == "cls" \in DOMAIN x

Recognised(x) ==
  ~IsTyped(x) /\ "type" \in DOMAIN x /\ x.type \in {PyStr(k) : k \in KnownKinds}

Retained(x) == IsTyped(x) \/ Recognised(x)

LacksRequired(x) ==
  /\ Recognised(x)
  /\ IF x.type = PyStr("text")
     THEN "data" \notin DOMAIN x
     ELSE "format" \notin DOMAIN x \/ "mime_type" \notin DOMAIN x

BaseEmpty(c) == c = PyNone \/ c = PyStr("") \/ c = PyList(<<>>)

CanonicalRole(cls) ==
  CASE cls = "SystemPromptMessage" -> "SYSTEM"
    [] cls = "UserPromptMessage" -> "USER"
    [] cls = "AssistantPromptMessage" -> "ASSISTANT"
    [] cls = "ToolPromptMessage" -> "TOOL"

ClassOfKind(k) ==
  CASE k = "text" -> "TextPromptMessageContent"
    [] k = "image" -> "ImagePromptMessageContent"
    [] k = "document" -> "DocumentPromptMessageContent"
    [] k = "audio" -> "AudioPromptMessageContent"
    [] k = "video" -> "VideoPromptMessageContent"

Constructed == op \in MessageClasses /\ pc \in {"built", "checked", "dumped", "loaded"}

Checked == op \in MessageClasses /\ pc \in {"checked", "dumped", "loaded"}

RawIsList == arg.content.t = "list"

\* the other keyword arguments of the call are acceptable
OtherKwargsValid ==
  /\ arg.role # PyStr("bogus")
  /\ op = "ToolPromptMessage" => arg.tool_call_id # Omitted

(* ------------------------------- claims ------------------------------- *)

\* C1: an assistant message is empty iff its content is base-empty AND it
\* has no tool calls (so one with a tool call is never empty).
C1_AssistantEmptyIff ==
  (Checked /\ op = "AssistantPromptMessage") =>
    (empty.b <=> (BaseEmpty(ret.val.content) /\ ret.val.tool_calls = <<>>))

\* C2: a tool message is empty iff its content is base-empty AND its
\* tool_call_id is empty (so one with a tool_call_id is never empty).
C2_ToolEmptyIff ==
  (Checked /\ op = "ToolPromptMessage") =>
    (empty.b <=> (BaseEmpty(ret.val.content) /\ ret.val.tool_call_id = ""))

\* C3: for user and system messages is_empty is true iff the stored content
\* is None, "" or []; content None/omitted and a raw sequence of unknown
\* kinds only are empty, a non-empty string or a sequence with a retained
\* item is not.
C3_BaseEmptyIff ==
  (Checked /\ op \in {"UserPromptMessage", "SystemPromptMessage"}) =>
    /\ empty.b <=> BaseEmpty(ret.val.content)
    /\ arg.content \in {Omitted, PyNone} => empty.b
    /\ arg.content.t = "str" => (empty.b <=> arg.content.s = "")
    /\ RawIsList =>
         (empty.b <=> \A i \in 1..Len(arg.content.l) : ~Retained(arg.content.l[i]))

C3_Witness ==
  /\ Checked /\ op = "UserPromptMessage"
  /\ arg.content = PyList(<<BogusDict, NoTypeDict>>)
  /\ ret.val.content = PyList(<<>>)
  /\ empty = PyBool(TRUE)

\* C4: the stored content of a message built from a raw sequence is the
\* subsequence of retained elements, in input order: a typed element is
\* kept as is, a dict of a known kind becomes the variant of that kind with
\* the dict's fields, a dict of any other kind (or none) is dropped, and
\* dropping never raises.
C4_NormalizedSequence ==
  /\ (Constructed /\ RawIsList) =>
       LET kept == SelectSeq(arg.content.l, Retained)
           out == ret.val.content
       IN /\ out.t = "list"
          /\ Len(out.l) = Len(kept)
          /\ \A i \in 1..Len(kept) :
               IF IsTyped(kept[i])
               THEN out.l[i] = kept[i]
               ELSE /\ out.l[i].cls = ClassOfKind(kept[i].type.s)
                    /\ ContentTypeValue(out.l[i].type) = kept[i].type.s
                    /\ \A f \in (DOMAIN kept[i]) \ {"type", "detail"} :
                         PyStr(out.l[i][f]) = kept[i][f]
                    /\ "detail" \in DOMAIN kept[i] =>
                         PyStr(DetailValue(out.l[i].detail)) = kept[i].detail
  /\ (op \in MessageClasses /\ pc = "raised" /\ RawIsList /\ OtherKwargsValid) =>
       \E i \in 1..Len(arg.content.l) : LacksRequired(arg.content.l[i])

C4_Witness ==
  /\ Constructed
  /\ arg.content = PyList(<<BogusDict, DocumentDict, TextObject>>)
  /\ Len(ret.val.content.l) = 2
  /\ ret.val.content.l[1].cls = "DocumentPromptMessageContent"
  /\ ret.val.content.l[2] = TextObject

\* C5 as stated: the role of a constructed message is the canonical role of
\* its class, whatever role the caller supplied.
C5_RoleAlwaysCanonical ==
  Constructed => ret.val.role = CanonicalRole(op)

\* C5 amended: a message built without a role argument has the canonical
\* role of its class; a role the caller supplies is stored as supplied.
C5_RoleDefaultOrSupplied ==
  Constructed =>
    /\ arg.role = Omitted => ret.val.role = CanonicalRole(op)
    /\ arg.role.t = "enum" => ret.val.role = arg.role.m
    /\ arg.role.t = "str" => RoleValue(ret.val.role) = arg.role.s

C5_Witness ==
  /\ Constructed /\ op = "ToolPromptMessage"
  /\ arg.role = Omitted
  /\ ret.val.role = "TOOL"

\* C6: a populated assistant message (content a sequence with a text and an
\* image item, two tool calls) dumped to the wire shape, where enum fields
\* are their value strings, and built again from it equals the original.
Populated(m) ==
  /\ m.content.t = "list"
  /\ \E i \in 1..Len(m.content.l) : m.content.l[i].cls = "TextPromptMessageContent"
  /\ \E i \in 1..Len(m.content.l) : m.content.l[i].cls = "ImagePromptMessageContent"
  /\ Len(m.tool_calls) = 2

C6_RoundTrip ==
  (pc = "loaded" /\ op = "AssistantPromptMessage" /\ Populated(ret.val)) =>
    /\ wire.role = PyStr(RoleValue(ret.val.role))
    /\ \A i \in 1..Len(wire.content.l) : wire.content.l[i].type.t = "str"
    /\ back = Return(ret.val)

C6_Witness ==
  /\ pc = "loaded" /\ op = "AssistantPromptMessage" /\ Populated(ret.val)
  /\ arg.name = PyStr("bob")
  /\ back.ok
  /\ Len(back.val.content.l) = 2
  /\ Len(back.val.tool_calls) = 2

\* C7: data of a multi-modal content is its url when the url is non-empty,
\* whatever base64_data is, and "data:" + mime_type + ";base64," +
\* base64_data otherwise.
C7_ResolvedData ==
  (pc = "done" /\ op = "data") =>
    /\ arg.url # "" => ret = Return(PyStr(arg.url))
    /\ arg.url = "" =>
         ret = Return(PyStr("data:" \o arg.mime_type \o ";base64," \o arg.base64_data))

C7_Witness ==
  /\ pc = "done" /\ op = "data"
  /\ arg.url = "http://x/y.png" /\ arg.base64_data = "AAAA"
  /\ ret = Return(PyStr("http://x/y.png"))

\* C8: a content dict of a known kind that lacks a required field makes the
\* construction of the whole message raise: no message is produced, with or
\* without the other items.
C8_MissingFieldRaises ==
  (op \in MessageClasses /\ pc # "call" /\ RawIsList
     /\ \E i \in 1..Len(arg.content.l) : LacksRequired(arg.content.l[i])) =>
    /\ pc = "raised"
    /\ ret = Raise("ValidationError")
    /\ empty = Unset /\ wire = Unset /\ back = Unset

C8_Witness ==
  /\ op = "UserPromptMessage" /\ pc = "raised"
  /\ arg.role = Omitted
  /\ arg.content = PyList(<<TextDict, TextDictNoData>>)
  /\ ~ret.ok

\* C9: value_of returns, for each of the four canonical strings, the role
\* whose value is that string, and raises for every other string.
C9_ValueOfExact ==
  (pc = "done" /\ op = "value_of") =>
    IF arg \in {"system", "user", "assistant", "tool"}
    THEN ret.ok /\ RoleValue(ret.val) = arg
    ELSE ret = Raise("ValueError")

C9_Witness ==
  /\ pc = "done" /\ op = "value_of"
  /\ arg = "assistant"
  /\ ret = Return("ASSISTANT")

\* C10: transform_id_to_str returns a str input unchanged and the decimal
\* (or literal) text of any other scalar; the result is always a str and
\* the function is idempotent.
Decimal(i) == IF i < 10 THEN Digit[i + 1] ELSE Digit[(i \div 10) + 1] \o Digit[(i % 10) + 1]

C10_CoerceId ==
  (pc = "done" /\ op = "transform_id_to_str") =>
    /\ ret.ok /\ IsStr(ret.val)
    /\ IsStr(arg) => ret.val = arg
    /\ (arg.t = "int" /\ arg.i >= 0) => ret.val.s = Decimal(arg.i)
    /\ (arg.t = "int" /\ arg.i < 0) => ret.val.s = "-" \o Decimal(0 - arg.i)
    /\ arg = PyInt(42) => ret.val = PyStr("42")
    /\ transform_id_to_str(ret.val) = ret.val

C10_Witness ==
  /\ pc = "done" /\ op = "transform_id_to_str"
  /\ arg = PyInt(42)
  /\ ret = Return(PyStr("42"))

====
